---- MODULE Spec2Model ----
(***************************************************************************)
(* The conversational-state engine of server/lib/agent.ts: one Agent      *)
(* instance, its conversation log, its experience summary and its status, *)
(* driven by processMessage.  processMessage suspends at the completion   *)
(* call (await generateResponse); updateExperienceSummary is an async     *)
(* function that processMessage calls without await, so the summarize     *)
(* promise it starts is still pending when processMessage returns and is  *)
(* settled by a later event-loop step.  processMessage calls on one       *)
(* instance are made one after the other: serializing them is the         *)
(* caller's obligation, and nothing the caller does can wait for the      *)
(* summarize promise.                                                     *)
(*                                                                         *)
(* The second part models the process route of server/routes.ts over the  *)
(* MemStorage of server/storage.ts.  MemStorage hands out the stored      *)
(* record itself, so the Agent built from it shares the experienceSummary *)
(* and conversationHistory objects with the store; objects are modelled   *)
(* as cells of a heap and records hold their addresses.  Every await of    *)
(* the route but the one on generateResponse is on a promise that is      *)
(* already settled, so the handler runs in two uninterrupted segments.    *)
(*                                                                         *)
(* The third part models the LearningManager of                           *)
(* server/services/learningManager.ts: startLearning suspends once, at    *)
(* getLearningSource, and processTask suspends at the processor of the     *)
(* task and at updateAgentKnowledge.                                       *)
(***************************************************************************)
EXTENDS Integers, Sequences, FiniteSets, TLC

VARIABLES
  status,                \* Agent.status
  messages,              \* Agent.conversationHistory.messages
  interactions,          \* Agent.experienceSummary.interactions
  lastSummary,           \* Agent.experienceSummary.lastSummary
  lastUpdated,           \* Agent.experienceSummary.lastUpdated (NoDate = absent)
  memoryType,            \* Agent.experienceSettings.memoryType
  summarizationEnabled,  \* Agent.experienceSettings.summarizationEnabled
  pc,                    \* position of the processMessage call: ready / awaiting / done
  call,                  \* the current (or last) processMessage call: argument, state at entry, context
  result,                \* how the last processMessage call ended
  pending,               \* summarizeText promises started and not settled yet
  clock,                 \* what new Date() returns
  calls,                 \* processMessage calls started on this instance
  roundTrips,            \* processMessage calls that returned
  sumTurns,              \* for each summarizeText call, the round-trip that issued it
  init,                  \* the state the instance was constructed with
  provider,              \* Agent.aiEngine.provider
  impl,                  \* which createActiveAgent the build has
  store,                 \* MemStorage.activeAgents
  currentAgentId,        \* MemStorage.currentAgentId
  heapSum,               \* the experienceSummary objects, by address
  heapHist,              \* the conversationHistory objects, by address
  reqs,                  \* the process requests received, in order of arrival
  rpending,              \* summarizeText promises started by requests, not settled yet
  serverClock,           \* what new Date() returns in the server
  actor,                 \* the agent id the last step was made for
  tasks,                 \* the LearningTask objects created, in order of creation
  activeTasks,           \* LearningManager.activeTasks
  starting,              \* startLearning calls suspended at getLearningSource, per source
  learnCalls,            \* startLearning calls made
  refused                \* startLearning calls that threw, per error

agentVars == <<status, messages, interactions, lastSummary, lastUpdated, memoryType,
               summarizationEnabled, pc, call, result, pending, clock, calls,
               roundTrips, sumTurns, init, provider>>

routeVars == <<impl, store, currentAgentId, heapSum, heapHist, reqs, rpending, serverClock, actor>>

learnVars == <<tasks, activeTasks, starting, learnCalls, refused>>

vars == <<agentVars, routeVars, learnVars>>

----------------------------------------------------------------------------
(* Bounds *)

MaxCalls == 3            \* processMessage calls per behaviour of Spec
MaxScenarioCalls == 16   \* processMessage calls per behaviour of ScenarioSpec

(* Inputs *)

UserTexts == {"hi", "yo"}
Replies == {"ack"}
SummaryTexts == {"sum"}
StoredCounts == {-2, 0, 7, 8, 24}
StoredLens == {0, 9, 14}
StoredStatuses == {"idle", "active", "error"}
MemoryTypes == {"conversation", "summarized", "long_term", "episodic"}
Providers == {"openai", "anthropic", "local", "mistral"}

NoDate == -1
DefaultSummary == "No previous interactions."
SeedSummary == "Has helped with creating marketing copy and reviewing campaign drafts."

----------------------------------------------------------------------------
(* Helpers: JavaScript primitives the code relies on *)

Min(a, b) == IF a < b THEN a ELSE b
Max(a, b) == IF a > b THEN a ELSE b

\* Array.prototype.slice(start) with one argument: a negative start counts
\* from the end and is clamped at 0; a start beyond the end gives [].
slice(arr, start) ==
  LET len == Len(arr)
      k == IF start < 0 THEN Max(len + start, 0) ELSE Min(start, len)
  IN  [i \in 1..(len - k) |-> arr[k + i]]

\* The % operator of JavaScript: the result takes the sign of the dividend.
jsRem(a, b) == IF a >= 0 THEN a % b ELSE 0 - ((0 - a) % b)

\* Template literal `${msg.role}: ${msg.content}`: the timestamp is dropped.
render(msg) == <<msg.role, msg.content>>

----------------------------------------------------------------------------
(* Agent *)

\* Variant: unshift instead of push (the new message goes to the front).
addMessageToHistory_Unshift(h, role, content, now) ==
  [messages |-> <<[role |-> role, content |-> content, timestamp |-> now]>> \o h.messages,
   interactions |-> h.interactions + 1]

\* Variant: only user messages count as interactions.
addMessageToHistory_UserOnly(h, role, content, now) ==
  [messages |-> Append(h.messages, [role |-> role, content |-> content, timestamp |-> now]),
   interactions |-> IF role = "user" THEN h.interactions + 1 ELSE h.interactions]

\* Variant: the push without the interactions++.
addMessageToHistory_NoCount(h, role, content, now) ==
  [messages |-> Append(h.messages, [role |-> role, content |-> content, timestamp |-> now]),
   interactions |-> h.interactions]

\* Variant: the role argument is ignored, every message is pushed as "user".
addMessageToHistory_RoleUser(h, role, content, now) ==
  [messages |-> Append(h.messages, [role |-> "user", content |-> content, timestamp |-> now]),
   interactions |-> h.interactions + 1]

\* Agent.addMessageToHistory: push the message, then interactions++.
addMessageToHistory(h, role, content, now) ==
  [messages |-> Append(h.messages, [role |-> role, content |-> content, timestamp |-> now]),
   interactions |-> h.interactions + 1]

\* Variant: the window sizes of "conversation" and "summarized" swapped.
getRelevantConversationHistory_Sizes(msgs, mt) ==
  CASE mt = "conversation" -> slice(msgs, -5)
    [] mt = "summarized" -> slice(msgs, -10)
    [] mt = "long_term" -> slice(msgs, -15)
    [] OTHER -> <<>>

\* Variant: slice(0, n) instead of slice(-n): the oldest messages.
getRelevantConversationHistory_Head(msgs, mt) ==
  CASE mt = "conversation" -> SubSeq(msgs, 1, Min(10, Len(msgs)))
    [] mt = "summarized" -> SubSeq(msgs, 1, Min(5, Len(msgs)))
    [] mt = "long_term" -> SubSeq(msgs, 1, Min(15, Len(msgs)))
    [] OTHER -> <<>>

\* Variant: the default branch returns the whole log.
getRelevantConversationHistory_DefaultAll(msgs, mt) ==
  CASE mt = "conversation" -> slice(msgs, -10)
    [] mt = "summarized" -> slice(msgs, -5)
    [] mt = "long_term" -> slice(msgs, -15)
    [] OTHER -> msgs

\* Agent.getRelevantConversationHistory
getRelevantConversationHistory(msgs, mt) ==
  CASE mt = "conversation" -> slice(msgs, -10)
    [] mt = "summarized" -> slice(msgs, -5)
    [] mt = "long_term" -> slice(msgs, -15)
    [] OTHER -> <<>>

\* Variant: the system prompt is pushed after the messages.
prepareContext_SystemLast(msgs, n, summary, mt) ==
  LET relevantMessages == getRelevantConversationHistory(msgs, mt)
  IN  [i \in 1..Len(relevantMessages) |-> render(relevantMessages[i])] \o
      <<(<<"system", n, summary>>)>>

\* Agent.prepareContext: the system prompt, then one entry per relevant message.
prepareContext(msgs, n, summary, mt) ==
  LET relevantMessages == getRelevantConversationHistory(msgs, mt)
  IN  <<(<<"system", n, summary>>)>> \o
      [i \in 1..Len(relevantMessages) |-> render(relevantMessages[i])]

\* Variant: a wrong period.
summaryDue_Every20(enabled, n) == enabled /\ jsRem(n, 20) = 0

\* The condition of Agent.updateExperienceSummary.
summaryDue(enabled, n) == enabled /\ jsRem(n, 10) = 0

\* Variant: slice(-5), the window of the "summarized" memory type.
textToSummarize_Five(msgs) ==
  LET last == slice(msgs, -5)
  IN  [i \in 1..Len(last) |-> render(last[i])]

\* textToSummarize of Agent.updateExperienceSummary (the lines before join).
textToSummarize(msgs) ==
  LET last == slice(msgs, -10)
  IN  [i \in 1..Len(last) |-> render(last[i])]

NoResult == [kind |-> "none", value |-> ""]
NoCall == [text |-> "", pre |-> <<>>, window |-> <<>>, context |-> <<>>,
           completion |-> "none", summarize |-> "none"]

\* A stored conversation of n messages, alternating user and assistant.
StoredLog(n) ==
  [i \in 1..n |-> [role |-> IF i % 2 = 1 THEN "user" ELSE "assistant",
                   content |-> "old", timestamp |-> i]]

snapshot == [status |-> status, messages |-> messages, interactions |-> interactions,
             lastSummary |-> lastSummary, lastUpdated |-> lastUpdated]

\* A nullable column of a stored record: <<>> when absent, <<v>> when set.
Some(v) == <<v>>
None == <<>>

\* Agent.toJSON, the state fields (also the fields the process route saves).
toJSON(a) ==
  [status |-> a.status,
   experienceSummary |-> Some(a.experienceSummary),
   conversationHistory |-> Some(a.conversationHistory)]

\* Variant: the stored status is ignored, the instance starts idle.
newAgent_Idle(rec, defSummary, defHistory) ==
  [status |-> "idle",
   experienceSummary |-> IF rec.experienceSummary # None
                         THEN rec.experienceSummary[1] ELSE defSummary,
   conversationHistory |-> IF rec.conversationHistory # None
                           THEN rec.conversationHistory[1] ELSE defHistory]

\* Variant: the default objects are one shared pair (address 1) instead of
\* new objects per instance.
newAgent_SharedDefaults(rec, defSummary, defHistory) ==
  [status |-> rec.status,
   experienceSummary |-> IF rec.experienceSummary # None
                         THEN rec.experienceSummary[1] ELSE 1,
   conversationHistory |-> IF rec.conversationHistory # None
                           THEN rec.conversationHistory[1] ELSE 1]

\* Agent.constructor with an activeAgent argument: the status as stored,
\* experienceSummary || default, conversationHistory || default.
newAgent(rec, defSummary, defHistory) ==
  [status |-> rec.status,
   experienceSummary |-> IF rec.experienceSummary # None
                         THEN rec.experienceSummary[1] ELSE defSummary,
   conversationHistory |-> IF rec.conversationHistory # None
                           THEN rec.conversationHistory[1] ELSE defHistory]

\* Variant: the anthropic case returns the OpenAI service.
createLLMService_AllOpenAI(pv) ==
  CASE pv = "openai" -> "OpenAIService"
    [] pv = "anthropic" -> "OpenAIService"
    [] pv = "local" -> "LocalLLMService"
    [] OTHER -> "OpenAIService"

\* createLLMService: the class of the service the constructor keeps.
createLLMService(pv) ==
  CASE pv = "openai" -> "OpenAIService"
    [] pv = "anthropic" -> "AnthropicService"
    [] pv = "local" -> "LocalLLMService"
    [] OTHER -> "OpenAIService"

\* generateResponse of AnthropicService and LocalLLMService throws at once;
\* only the OpenAI service can resolve.
canRespond(service) == service = "OpenAIService"

\* The defaults of the constructor.
defaultSummary == [interactions |-> 0, lastSummary |-> DefaultSummary, lastUpdated |-> NoDate]
defaultHistory == [messages |-> <<>>]

\* The state fields of the instance, as one value.
session ==
  [status |-> status,
   experienceSummary |-> [interactions |-> interactions, lastSummary |-> lastSummary,
                          lastUpdated |-> lastUpdated],
   conversationHistory |-> [messages |-> messages]]

\* The sources a startLearning call can name: one with a type processTask
\* handles, one with a type it does not, and one that is not stored (or
\* belongs to another agent).
SourceKinds == {"document", "video", "missing"}

\* LearningManager.constructor: no task, no active task.
NoLearning ==
  /\ tasks = <<>>
  /\ activeTasks = 0
  /\ starting = [k \in SourceKinds |-> 0]
  /\ learnCalls = 0
  /\ refused = [notFound |-> 0, limit |-> 0]

\* No server around the instance: the route variables stay as they are here.
NoServer ==
  /\ impl = "storage.ts"
  /\ store = <<>>
  /\ currentAgentId = 1
  /\ heapSum = <<>>
  /\ heapHist = <<>>
  /\ reqs = <<>>
  /\ rpending = {}
  /\ serverClock = 0
  /\ actor = 0

\* Agent.constructor, the state fields.  fresh: no activeAgent argument.
Construct(st, n, log, summary, mt, en, fresh) ==
  /\ status = st
  /\ messages = log
  /\ interactions = n
  /\ lastSummary = summary
  /\ lastUpdated = NoDate
  /\ memoryType = mt
  /\ summarizationEnabled = en
  /\ pc = "ready"
  /\ call = NoCall
  /\ result = NoResult
  /\ pending = {}
  /\ clock = Len(log) + 1
  /\ calls = 0
  /\ roundTrips = 0
  /\ sumTurns = <<>>
  /\ init = [fresh |-> fresh, messages |-> log, interactions |-> n, status |-> st]
  /\ NoServer

\* new Agent(template): the else branch of the constructor.
InitFresh(mt, en) == Construct("idle", 0, <<>>, DefaultSummary, mt, en, TRUE)

\* new Agent(template, activeAgent): the record comes from the store, whose
\* experienceSummary and conversationHistory columns are unvalidated JSON.
InitStored(mt, en) ==
  \E st \in StoredStatuses, n \in StoredCounts, len \in StoredLens :
    Construct(st, n, StoredLog(len), SeedSummary, mt, en, FALSE)

Init ==
  \E mt \in MemoryTypes, en \in BOOLEAN, pv \in Providers :
    /\ provider = pv
    /\ InitFresh(mt, en) \/ InitStored(mt, en)
    /\ NoLearning

\* Variant: a call made while the status is error is refused at once.
Call_Breaker(text, limit) ==
  /\ pc \in {"ready", "done"}
  /\ calls < limit
  /\ IF status = "error"
     THEN /\ call' = [text |-> text, pre |-> snapshot, window |-> <<>>, context |-> <<>>,
                      completion |-> "failed", summarize |-> "none"]
          /\ pc' = "done"
          /\ result' = [kind |-> "throw", value |-> "ProviderError"]
          /\ UNCHANGED <<messages, interactions, status>>
     ELSE LET h == addMessageToHistory([messages |-> messages,
                                       interactions |-> interactions],
                                      "user", text, clock)
          IN  /\ messages' = h.messages
              /\ interactions' = h.interactions
              /\ call' = [text |-> text, pre |-> snapshot,
                          window |-> getRelevantConversationHistory(h.messages, memoryType),
                          context |-> prepareContext(h.messages, h.interactions, lastSummary,
                                                     memoryType),
                          completion |-> "pending", summarize |-> "none"]
              /\ status' = "active"
              /\ pc' = "awaiting"
              /\ result' = NoResult
  /\ calls' = calls + 1
  /\ clock' = clock + 1
  /\ UNCHANGED <<lastSummary, lastUpdated, memoryType, summarizationEnabled,
                 pending, roundTrips, sumTurns, init, provider>>
  /\ UNCHANGED <<routeVars, learnVars>>

\* Variant: prepareContext runs before the user message is added.
Call_ContextFirst(text, limit) ==
  /\ pc \in {"ready", "done"}
  /\ calls < limit
  /\ LET h == addMessageToHistory([messages |-> messages, interactions |-> interactions],
                                  "user", text, clock)
     IN  /\ messages' = h.messages
         /\ interactions' = h.interactions
         /\ call' = [text |-> text, pre |-> snapshot,
                     window |-> getRelevantConversationHistory(messages, memoryType),
                     context |-> prepareContext(messages, interactions, lastSummary, memoryType),
                     completion |-> "pending", summarize |-> "none"]
  /\ status' = "active"
  /\ pc' = "awaiting"
  /\ result' = NoResult
  /\ calls' = calls + 1
  /\ clock' = clock + 1
  /\ UNCHANGED <<lastSummary, lastUpdated, memoryType, summarizationEnabled,
                 pending, roundTrips, sumTurns, init, provider>>
  /\ UNCHANGED <<routeVars, learnVars>>

\* processMessage up to the await of generateResponse.
Call(text, limit) ==
  /\ pc \in {"ready", "done"}
  /\ calls < limit
  /\ LET h == addMessageToHistory([messages |-> messages, interactions |-> interactions],
                                  "user", text, clock)
     IN  /\ messages' = h.messages
         /\ interactions' = h.interactions
         /\ call' = [text |-> text, pre |-> snapshot,
                     window |-> getRelevantConversationHistory(h.messages, memoryType),
                     context |-> prepareContext(h.messages, h.interactions, lastSummary, memoryType),
                     completion |-> "pending", summarize |-> "none"]
  /\ status' = "active"
  /\ pc' = "awaiting"
  /\ result' = NoResult
  /\ calls' = calls + 1
  /\ clock' = clock + 1
  /\ UNCHANGED <<lastSummary, lastUpdated, memoryType, summarizationEnabled,
                 pending, roundTrips, sumTurns, init, provider>>
  /\ UNCHANGED <<routeVars, learnVars>>

\* generateResponse resolved: the rest of the try block.  The synchronous
\* part of updateExperienceSummary runs inside this step and, when due,
\* starts summarizeText; its promise is not awaited by processMessage.
CompleteOk(reply) ==
  /\ pc = "awaiting"
  /\ canRespond(createLLMService(provider))
  /\ LET h == addMessageToHistory([messages |-> messages, interactions |-> interactions],
                                  "assistant", reply, clock)
     IN  /\ messages' = h.messages
         /\ interactions' = h.interactions
         /\ IF summaryDue(summarizationEnabled, h.interactions)
            THEN \E o \in SummaryTexts \cup {"fail"} :
                   /\ pending' = pending \cup
                        {[id |-> calls, text |-> textToSummarize(h.messages), outcome |-> o]}
                   /\ sumTurns' = Append(sumTurns, roundTrips + 1)
                   /\ call' = [call EXCEPT !.completion = "ok",
                                           !.summarize = IF o = "fail" THEN "fail" ELSE "ok"]
            ELSE /\ UNCHANGED <<pending, sumTurns>>
                 /\ call' = [call EXCEPT !.completion = "ok"]
  /\ status' = "idle"
  /\ result' = [kind |-> "return", value |-> reply]
  /\ pc' = "done"
  /\ roundTrips' = roundTrips + 1
  /\ clock' = clock + 1
  /\ UNCHANGED <<lastSummary, lastUpdated, memoryType, summarizationEnabled, calls, init, provider>>
  /\ UNCHANGED <<routeVars, learnVars>>

\* Variant: the catch block records an empty assistant message.
CompleteFail_PartialReply ==
  /\ pc = "awaiting"
  /\ status' = "error"
  /\ messages' = Append(messages, [role |-> "assistant", content |-> "", timestamp |-> clock])
  /\ result' = [kind |-> "throw", value |-> "ProviderError"]
  /\ call' = [call EXCEPT !.completion = "failed"]
  /\ pc' = "done"
  /\ clock' = clock + 1
  /\ UNCHANGED <<interactions, lastSummary, lastUpdated, memoryType,
                 summarizationEnabled, pending, calls, roundTrips, sumTurns, init, provider>>
  /\ UNCHANGED <<routeVars, learnVars>>

\* Variant: the catch block rethrows without setting the status.
CompleteFail_NoStatus ==
  /\ pc = "awaiting"
  /\ result' = [kind |-> "throw", value |-> "ProviderError"]
  /\ call' = [call EXCEPT !.completion = "failed"]
  /\ pc' = "done"
  /\ clock' = clock + 1
  /\ UNCHANGED <<status, messages, interactions, lastSummary, lastUpdated, memoryType,
                 summarizationEnabled, pending, calls, roundTrips, sumTurns, init, provider>>
  /\ UNCHANGED <<routeVars, learnVars>>

\* generateResponse rejected: the catch block of processMessage.
CompleteFail ==
  /\ pc = "awaiting"
  /\ status' = "error"
  /\ result' = [kind |-> "throw", value |-> "ProviderError"]
  /\ call' = [call EXCEPT !.completion = "failed"]
  /\ pc' = "done"
  /\ clock' = clock + 1
  /\ UNCHANGED <<messages, interactions, lastSummary, lastUpdated, memoryType,
                 summarizationEnabled, pending, calls, roundTrips, sumTurns, init, provider>>
  /\ UNCHANGED <<routeVars, learnVars>>

\* summarizeText resolved: the continuation of updateExperienceSummary.
SummarizeResolve ==
  \E p \in pending :
    /\ p.outcome # "fail"
    /\ lastSummary' = p.outcome
    /\ lastUpdated' = clock
    /\ pending' = pending \ {p}
    /\ UNCHANGED <<status, messages, interactions, memoryType, summarizationEnabled,
                   pc, call, result, clock, calls, roundTrips, sumTurns, init, provider>>
    /\ UNCHANGED <<routeVars, learnVars>>

\* summarizeText rejected: the catch block of updateExperienceSummary.
SummarizeReject ==
  \E p \in pending :
    /\ p.outcome = "fail"
    /\ pending' = pending \ {p}
    /\ UNCHANGED <<status, messages, interactions, lastSummary, lastUpdated, memoryType,
                   summarizationEnabled, pc, call, result, clock, calls, roundTrips,
                   sumTurns, init, provider>>
    /\ UNCHANGED <<routeVars, learnVars>>

Next ==
  \/ \E text \in UserTexts : Call(text, MaxCalls)
  \/ \E reply \in Replies : CompleteOk(reply)
  \/ CompleteFail
  \/ SummarizeResolve
  \/ SummarizeReject

Spec == Init /\ [][Next]_vars

\* The scenario of a fresh session whose completions all succeed.
ScenarioInit == provider = "openai" /\ InitFresh("conversation", TRUE) /\ NoLearning

ScenarioNext ==
  \/ Call("hi", MaxScenarioCalls)
  \/ \E reply \in Replies : CompleteOk(reply)
  \/ SummarizeResolve
  \/ SummarizeReject

ScenarioSpec == ScenarioInit /\ [][ScenarioNext]_vars

----------------------------------------------------------------------------
(* The process route over MemStorage *)

MaxRequests == 3         \* process requests per behaviour of RouteSpec
MaxAgents == 2           \* agent ids MemStorage hands out per behaviour of RouteSpec

RouteTexts == {"hi"}
Impls == {"storage.ts", "part_007"}

\* The experienceSettings of the template MemStorage seeds; every agent of
\* the model is an instance of this template.
SeedMemoryType == "summarized"
SeedSummarization == TRUE

\* The state a client gives in the body of POST /agents: none of the three
\* columns, or all of them.  tmpl: the body names template 1.
Bodies ==
  {[tmpl |-> TRUE, state |-> FALSE, interactions |-> 0],
   [tmpl |-> FALSE, state |-> FALSE, interactions |-> 0],
   [tmpl |-> TRUE, state |-> TRUE, interactions |-> 0],
   [tmpl |-> TRUE, state |-> TRUE, interactions |-> 8]}

Absent == [present |-> FALSE, bare |-> FALSE, templateId |-> 0, status |-> "undefined",
           experienceSummary |-> None, conversationHistory |-> None]

\* MemStorage.initializeDefaultData: the sample active agent.
initializeDefaultData ==
  /\ store = <<[present |-> TRUE, bare |-> FALSE, templateId |-> 1, status |-> "active",
                experienceSummary |-> Some(1), conversationHistory |-> Some(1)]>>
  /\ heapSum = <<[interactions |-> 24, lastSummary |-> SeedSummary, lastUpdated |-> NoDate]>>
  /\ heapHist = <<[messages |-> <<>>]>>
  /\ currentAgentId = 2

\* The server after start-up; the Agent instance of the first part is not used.
RouteInit ==
  /\ status = "idle"
  /\ messages = <<>>
  /\ interactions = 0
  /\ lastSummary = DefaultSummary
  /\ lastUpdated = NoDate
  /\ memoryType = SeedMemoryType
  /\ summarizationEnabled = SeedSummarization
  /\ provider = "openai"
  /\ pc = "ready"
  /\ call = NoCall
  /\ result = NoResult
  /\ pending = {}
  /\ clock = 1
  /\ calls = 0
  /\ roundTrips = 0
  /\ sumTurns = <<>>
  /\ init = [fresh |-> TRUE, messages |-> <<>>, interactions |-> 0, status |-> "idle"]
  /\ impl \in Impls
  /\ initializeDefaultData
  /\ reqs = <<>>
  /\ rpending = {}
  /\ serverClock = 1
  /\ actor = 0
  /\ NoLearning

\* MemStorage.createActiveAgent of server/storage.ts: the body as it is.
\* sum, hist: the addresses of the objects of the body, when it has them.
createActiveAgent(body, sum, hist) ==
  [present |-> TRUE, bare |-> ~body.state,
   templateId |-> IF body.tmpl THEN 1 ELSE 0,
   status |-> IF body.state THEN "idle" ELSE "undefined",
   experienceSummary |-> IF body.state THEN Some(sum) ELSE None,
   conversationHistory |-> IF body.state THEN Some(hist) ELSE None]

\* MemStorage.createActiveAgent of the later storage file: missing columns
\* are filled in, and the objects at sum and hist are the fresh defaults.
createActiveAgentDefaults(body, sum, hist) ==
  [present |-> TRUE, bare |-> ~body.state,
   templateId |-> IF body.tmpl THEN 1 ELSE 0,
   status |-> IF body.state THEN "idle" ELSE "inactive",
   experienceSummary |-> Some(sum),
   conversationHistory |-> Some(hist)]

\* POST /agents.  The objects of the body (or, in the later storage file,
\* the default objects) are new cells of the heap.
PostAgent(body) ==
  /\ currentAgentId <= MaxAgents
  /\ LET sum == Len(heapSum) + 1
         hist == Len(heapHist) + 1
         alloc == body.state \/ impl = "part_007"
         rec == IF impl = "part_007"
                THEN createActiveAgentDefaults(body, sum, hist)
                ELSE createActiveAgent(body, sum, hist)
     IN  /\ store' = Append(store, rec)
         /\ heapSum' = IF alloc
                       THEN Append(heapSum,
                              [interactions |-> body.interactions,
                               lastSummary |-> IF body.state THEN DefaultSummary ELSE "",
                               lastUpdated |-> NoDate])
                       ELSE heapSum
         /\ heapHist' = IF alloc THEN Append(heapHist, [messages |-> <<>>]) ELSE heapHist
  /\ actor' = currentAgentId
  /\ currentAgentId' = currentAgentId + 1
  /\ UNCHANGED <<impl, reqs, rpending, serverClock>>
  /\ UNCHANGED <<agentVars, learnVars>>

\* DELETE /agents/:id with MemStorage.deleteActiveAgent, for a stored agent.
DeleteAgent(id) ==
  /\ id \in 1..Len(store)
  /\ store[id].present
  /\ store' = [store EXCEPT ![id] = Absent]
  /\ actor' = id
  /\ UNCHANGED <<impl, currentAgentId, heapSum, heapHist, reqs, rpending, serverClock>>
  /\ UNCHANGED <<agentVars, learnVars>>

\* MemStorage.getActiveAgent
getActiveAgent(id) == IF id \in 1..Len(store) THEN store[id] ELSE Absent

NoRequest == [agent |-> 0, text |-> "", pc |-> "responded", http |-> 0, response |-> "",
              status |-> "undefined", sum |-> 0, hist |-> 0, entry |-> <<>>,
              userAt |-> 0, replyAt |-> 0, window |-> <<>>, context |-> <<>>,
              summarize |-> "none", saved |-> FALSE]

\* POST /agents/:id/process up to the await of generateResponse: the
\* checks, the Agent constructor and the first part of processMessage.
ProcessStart(id, text) ==
  /\ Len(reqs) < MaxRequests
  /\ id \in 1..MaxAgents
  /\ actor' = id
  /\ LET activeAgent == getActiveAgent(id)
     IN  IF ~activeAgent.present
         THEN /\ reqs' = Append(reqs, [NoRequest EXCEPT !.agent = id, !.text = text, !.http = 404])
              /\ UNCHANGED <<heapSum, heapHist, serverClock>>
         ELSE IF activeAgent.templateId = 0
         THEN /\ reqs' = Append(reqs, [NoRequest EXCEPT !.agent = id, !.text = text, !.http = 400])
              /\ UNCHANGED <<heapSum, heapHist, serverClock>>
         ELSE LET heapSum1 == IF activeAgent.experienceSummary = None
                              THEN Append(heapSum, defaultSummary) ELSE heapSum
                  heapHist1 == IF activeAgent.conversationHistory = None
                               THEN Append(heapHist, defaultHistory) ELSE heapHist
                  agent == newAgent(activeAgent, Len(heapSum1), Len(heapHist1))
                  sum == agent.experienceSummary
                  hist == agent.conversationHistory
                  h == addMessageToHistory(
                         [messages |-> heapHist1[hist].messages,
                          interactions |-> heapSum1[sum].interactions],
                         "user", text, serverClock)
              IN  /\ heapHist' = [heapHist1 EXCEPT ![hist].messages = h.messages]
                  /\ heapSum' = [heapSum1 EXCEPT ![sum].interactions = h.interactions]
                  /\ reqs' = Append(reqs,
                       [NoRequest EXCEPT
                          !.agent = id, !.text = text, !.pc = "awaiting",
                          !.status = "active", !.sum = sum, !.hist = hist,
                          !.entry = heapHist1[hist].messages,
                          !.userAt = Len(h.messages),
                          !.window = getRelevantConversationHistory(h.messages, SeedMemoryType),
                          !.context = prepareContext(h.messages, h.interactions,
                                                     heapSum1[sum].lastSummary, SeedMemoryType)])
                  /\ serverClock' = serverClock + 1
  /\ UNCHANGED <<impl, store, currentAgentId, rpending>>
  /\ UNCHANGED <<agentVars, learnVars>>

\* MemStorage.updateActiveAgent: the stored record with the given columns
\* replaced, or no change when the id is not stored.
updateActiveAgent(st, id, data) ==
  IF id \in 1..Len(st) /\ st[id].present
  THEN [st EXCEPT ![id] = [st[id] EXCEPT !.status = data.status,
                                         !.experienceSummary = data.experienceSummary,
                                         !.conversationHistory = data.conversationHistory]]
  ELSE st

\* generateResponse resolved: the rest of processMessage, then the rest of
\* the route: updateActiveAgent, whose result is not looked at, and
\* res.json({response, status}).
ProcessCompleteOk(r, reply) ==
  /\ r \in 1..Len(reqs)
  /\ reqs[r].pc = "awaiting"
  /\ actor' = reqs[r].agent
  /\ LET q == reqs[r]
         h == addMessageToHistory(
                [messages |-> heapHist[q.hist].messages,
                 interactions |-> heapSum[q.sum].interactions],
                "assistant", reply, serverClock)
         due == summaryDue(SeedSummarization, h.interactions)
         data == [status |-> "idle", experienceSummary |-> Some(q.sum),
                  conversationHistory |-> Some(q.hist)]
     IN  /\ heapHist' = [heapHist EXCEPT ![q.hist].messages = h.messages]
         /\ heapSum' = [heapSum EXCEPT ![q.sum].interactions = h.interactions]
         /\ store' = updateActiveAgent(store, q.agent, data)
         /\ \E o \in IF due THEN SummaryTexts \cup {"fail"} ELSE {"none"} :
              /\ rpending' = IF due
                             THEN rpending \cup {[req |-> r, sum |-> q.sum, outcome |-> o,
                                                  text |-> textToSummarize(h.messages)]}
                             ELSE rpending
              /\ reqs' = [reqs EXCEPT ![r] =
                           [q EXCEPT !.pc = "responded", !.status = "idle", !.http = 200,
                                     !.response = reply, !.replyAt = Len(h.messages),
                                     !.summarize = IF o \in SummaryTexts THEN "ok" ELSE o,
                                     !.saved = getActiveAgent(q.agent).present]]
  /\ serverClock' = serverClock + 1
  /\ UNCHANGED <<impl, currentAgentId>>
  /\ UNCHANGED <<agentVars, learnVars>>

\* Variant: the catch block of the route saves the status of the instance.
ProcessCompleteFail_SaveError(r) ==
  /\ r \in 1..Len(reqs)
  /\ reqs[r].pc = "awaiting"
  /\ actor' = reqs[r].agent
  /\ reqs' = [reqs EXCEPT ![r] = [@ EXCEPT !.pc = "responded", !.status = "error",
                                          !.http = 500]]
  /\ store' = IF reqs[r].agent \in 1..Len(store) /\ store[reqs[r].agent].present
              THEN [store EXCEPT ![reqs[r].agent].status = "error"]
              ELSE store
  /\ serverClock' = serverClock + 1
  /\ UNCHANGED <<impl, currentAgentId, heapSum, heapHist, rpending>>
  /\ UNCHANGED <<agentVars, learnVars>>

\* generateResponse rejected: the catch block of processMessage, then the
\* catch block of the route: status 500, no storage call.
ProcessCompleteFail(r) ==
  /\ r \in 1..Len(reqs)
  /\ reqs[r].pc = "awaiting"
  /\ actor' = reqs[r].agent
  /\ reqs' = [reqs EXCEPT ![r] = [@ EXCEPT !.pc = "responded", !.status = "error",
                                          !.http = 500]]
  /\ serverClock' = serverClock + 1
  /\ UNCHANGED <<impl, store, currentAgentId, heapSum, heapHist, rpending>>
  /\ UNCHANGED <<agentVars, learnVars>>

\* summarizeText of a request resolved: the continuation of
\* updateExperienceSummary writes into the summary object of its Agent.
ProcessSummarizeResolve ==
  \E p \in rpending :
    /\ p.outcome # "fail"
    /\ heapSum' = [heapSum EXCEPT ![p.sum].lastSummary = p.outcome,
                                  ![p.sum].lastUpdated = serverClock]
    /\ rpending' = rpending \ {p}
    /\ actor' = reqs[p.req].agent
    /\ UNCHANGED <<impl, store, currentAgentId, heapHist, reqs, serverClock>>
    /\ UNCHANGED <<agentVars, learnVars>>

\* summarizeText of a request rejected.
ProcessSummarizeReject ==
  \E p \in rpending :
    /\ p.outcome = "fail"
    /\ rpending' = rpending \ {p}
    /\ actor' = reqs[p.req].agent
    /\ UNCHANGED <<impl, store, currentAgentId, heapSum, heapHist, reqs, serverClock>>
    /\ UNCHANGED <<agentVars, learnVars>>

RouteNext ==
  \/ \E body \in Bodies : PostAgent(body)
  \/ \E id \in 1..MaxAgents : DeleteAgent(id)
  \/ \E id \in 1..MaxAgents, text \in RouteTexts : ProcessStart(id, text)
  \/ \E r \in 1..MaxRequests, reply \in Replies : ProcessCompleteOk(r, reply)
  \/ \E r \in 1..MaxRequests : ProcessCompleteFail(r)
  \/ ProcessSummarizeResolve
  \/ ProcessSummarizeReject

RouteSpec == RouteInit /\ [][RouteNext]_vars

----------------------------------------------------------------------------
(* The learning manager *)

MaxLearnCalls == 6       \* startLearning calls per behaviour of LearningSpec

\* defaultConfig.learning.maxConcurrentProcesses
maxConcurrentProcesses == 5

\* The types processTask has a case for; the model's sources use one of them.
SupportedTypes == {"document"}

\* A LearningTask as startLearning creates it.  trail: every value assigned
\* to status so far, in order; phase: where its processTask call stands.
newTask(k) == [type |-> k, status |-> "pending", progress |-> 0,
               phase |-> "created", trail |-> <<"pending">>]

\* task.status = st
setStatus(task, st) == [task EXCEPT !.status = st, !.trail = Append(@, st)]

\* The server with an idle learning manager; the Agent instance and the
\* store are not used.
LearningInit ==
  /\ provider = "openai"
  /\ InitFresh("conversation", FALSE)
  /\ NoLearning

\* startLearning up to the await of getLearningSource.
StartLearning(k) ==
  /\ learnCalls < MaxLearnCalls
  /\ learnCalls' = learnCalls + 1
  /\ starting' = [starting EXCEPT ![k] = @ + 1]
  /\ UNCHANGED <<tasks, activeTasks, refused>>
  /\ UNCHANGED <<agentVars, routeVars>>

\* Variant: the limit test is > instead of >=.
StartLearningResume_OffByOne(k) ==
  /\ starting[k] > 0
  /\ starting' = [starting EXCEPT ![k] = @ - 1]
  /\ IF k = "missing"
     THEN /\ refused' = [refused EXCEPT !.notFound = @ + 1]
          /\ UNCHANGED <<tasks, activeTasks>>
     ELSE IF activeTasks > maxConcurrentProcesses
     THEN /\ refused' = [refused EXCEPT !.limit = @ + 1]
          /\ UNCHANGED <<tasks, activeTasks>>
     ELSE LET processing == setStatus(newTask(k), "processing")
          IN  /\ IF k \in SupportedTypes
                 THEN /\ tasks' = Append(tasks, [processing EXCEPT !.phase = "running"])
                      /\ activeTasks' = activeTasks + 1
                 ELSE /\ tasks' = Append(tasks, [setStatus(processing, "error")
                                                   EXCEPT !.phase = "settled"])
                      /\ activeTasks' = (activeTasks + 1) - 1
              /\ UNCHANGED refused
  /\ UNCHANGED learnCalls
  /\ UNCHANGED <<agentVars, routeVars>>

\* getLearningSource resolved: the rest of startLearning, and processTask
\* up to its first await.  For a type without a case the default branch
\* throws in the same segment: catch, then finally.
StartLearningResume(k) ==
  /\ starting[k] > 0
  /\ starting' = [starting EXCEPT ![k] = @ - 1]
  /\ IF k = "missing"
     THEN /\ refused' = [refused EXCEPT !.notFound = @ + 1]
          /\ UNCHANGED <<tasks, activeTasks>>
     ELSE IF activeTasks >= maxConcurrentProcesses
     THEN /\ refused' = [refused EXCEPT !.limit = @ + 1]
          /\ UNCHANGED <<tasks, activeTasks>>
     ELSE LET processing == setStatus(newTask(k), "processing")
          IN  /\ IF k \in SupportedTypes
                 THEN /\ tasks' = Append(tasks, [processing EXCEPT !.phase = "running"])
                      /\ activeTasks' = activeTasks + 1
                 ELSE /\ tasks' = Append(tasks, [setStatus(processing, "error")
                                                   EXCEPT !.phase = "settled"])
                      /\ activeTasks' = (activeTasks + 1) - 1
              /\ UNCHANGED refused
  /\ UNCHANGED learnCalls
  /\ UNCHANGED <<agentVars, routeVars>>

\* The processor of a task resolved: status completed, progress 100, then
\* the await of updateAgentKnowledge.
ProcessorResolve(t) ==
  /\ t \in 1..Len(tasks)
  /\ tasks[t].phase = "running"
  /\ tasks' = [tasks EXCEPT ![t] = [setStatus(@, "completed") EXCEPT !.progress = 100,
                                                                   !.phase = "saving"]]
  /\ UNCHANGED <<activeTasks, starting, learnCalls, refused>>
  /\ UNCHANGED <<agentVars, routeVars>>

\* The processor of a task rejected: catch, then finally.
ProcessorReject(t) ==
  /\ t \in 1..Len(tasks)
  /\ tasks[t].phase = "running"
  /\ tasks' = [tasks EXCEPT ![t] = [setStatus(@, "error") EXCEPT !.phase = "settled"]]
  /\ activeTasks' = activeTasks - 1
  /\ UNCHANGED <<starting, learnCalls, refused>>
  /\ UNCHANGED <<agentVars, routeVars>>

\* updateAgentKnowledge resolved and notifyComplete returned: finally.
KnowledgeSaved(t) ==
  /\ t \in 1..Len(tasks)
  /\ tasks[t].phase = "saving"
  /\ tasks' = [tasks EXCEPT ![t].phase = "settled"]
  /\ activeTasks' = activeTasks - 1
  /\ UNCHANGED <<starting, learnCalls, refused>>
  /\ UNCHANGED <<agentVars, routeVars>>

\* updateAgentKnowledge rejected, or notifyComplete threw (getWebSocketServer
\* throws when no WebSocket server was initialized): catch, then finally.
KnowledgeFailed(t) ==
  /\ t \in 1..Len(tasks)
  /\ tasks[t].phase = "saving"
  /\ tasks' = [tasks EXCEPT ![t] = [setStatus(@, "error") EXCEPT !.phase = "settled"]]
  /\ activeTasks' = activeTasks - 1
  /\ UNCHANGED <<starting, learnCalls, refused>>
  /\ UNCHANGED <<agentVars, routeVars>>

LearningNext ==
  \/ \E k \in SourceKinds : StartLearning(k)
  \/ \E k \in SourceKinds : StartLearningResume(k)
  \/ \E t \in 1..MaxLearnCalls : ProcessorResolve(t)
  \/ \E t \in 1..MaxLearnCalls : ProcessorReject(t)
  \/ \E t \in 1..MaxLearnCalls : KnowledgeSaved(t)
  \/ \E t \in 1..MaxLearnCalls : KnowledgeFailed(t)

LearningSpec == LearningInit /\ [][LearningNext]_vars

----------------------------------------------------------------------------
(* Properties *)

IsPrefix(s, t) == Len(s) <= Len(t) /\ SubSeq(t, 1, Len(s)) = s

Last(s) == s[Len(s)]

\* The window size the specification gives for a memory type.
Bound(mt) ==
  CASE mt = "conversation" -> 10
    [] mt = "summarized" -> 5
    [] mt = "long_term" -> 15
    [] OTHER -> 0

\* C1: when the completion call of a processMessage call failed, the call
\* ended by throwing, the log is the log at entry plus exactly one message
\* (role user, the given text), the interaction count grew by one and the
\* status is error.
C1_AtomicityOnFailure ==
  (pc = "done" /\ call.completion = "failed") =>
    /\ result.kind = "throw"
    /\ Len(messages) = Len(call.pre.messages) + 1
    /\ SubSeq(messages, 1, Len(call.pre.messages)) = call.pre.messages
    /\ Last(messages).role = "user"
    /\ Last(messages).content = call.text
    /\ \A i \in (Len(call.pre.messages) + 1)..Len(messages) : messages[i].role # "assistant"
    /\ interactions = call.pre.interactions + 1
    /\ status = "error"

C1_Witness ==
  /\ pc = "done"
  /\ call.completion = "failed"
  /\ call.text = "hi"
  /\ Len(call.pre.messages) > 0
  /\ roundTrips > 0

\* C2: at the return of a turn whose completion succeeded and whose
\* summarize call is one that fails, processMessage returns the completion
\* text, the status is idle, and lastSummary and lastUpdated are what they
\* were when the call was entered.
C2_BestEffort ==
  [][(pc = "awaiting" /\ pc' = "done" /\ call'.summarize = "fail") =>
       /\ result'.kind = "return"
       /\ result'.value = Last(messages').content
       /\ status' = "idle"
       /\ lastSummary' = call.pre.lastSummary
       /\ lastUpdated' = call.pre.lastUpdated]_vars

\* C3: once a processMessage call has finished, the status is idle if it
\* returned and error if it threw; it is never active.
C3_TerminalStatus ==
  pc = "done" =>
    \/ (result.kind = "return" /\ status = "idle")
    \/ (result.kind = "throw" /\ status = "error")

C3_Witness ==
  /\ pc = "done"
  /\ result.kind = "throw"
  /\ init.status = "active"
  /\ calls > 1

\* C4: every step leaves the log before it a prefix of the log after it.
C4_AppendOnly == [][IsPrefix(messages, messages')]_vars

C4_Witness ==
  /\ Len(init.messages) > 0
  /\ Len(messages) >= Len(init.messages) + 3
  /\ roundTrips > 0
  /\ roundTrips < calls

\* C5: the window selected for the completion call has min(L, bound(m))
\* messages, L the length of the log it was selected from.
C5_WindowBound ==
  pc = "awaiting" => Len(call.window) = Min(Len(messages), Bound(memoryType))

C5_Witness ==
  /\ pc = "awaiting"
  /\ memoryType = "long_term"
  /\ Len(messages) > 15
  /\ Len(call.window) = 15

\* C6: the window selected for the completion call is a contiguous suffix
\* of the log, in log order.
C6_WindowIsSuffix ==
  pc = "awaiting" =>
    \E k \in 0..Len(messages) : call.window = SubSeq(messages, k + 1, Len(messages))

C6_Witness ==
  /\ pc = "awaiting"
  /\ memoryType = "summarized"
  /\ Len(messages) > 5
  /\ call.window = SubSeq(messages, Len(messages) - 4, Len(messages))

\* C7: a turn starts a summarization pass iff summarizationEnabled is true
\* and the interaction count is greater than 0 and a multiple of 10.
C7_Cadence ==
  (pc = "done" /\ call.completion = "ok") =>
    ((call.summarize # "none") <=>
       (summarizationEnabled /\ interactions > 0 /\ interactions % 10 = 0))

\* C8 as stated: in the scenario, one summarize call in total has been made
\* when the 10th user message has been answered, and still one when the
\* 11th has been answered.
C8_OneCallAfterTen ==
  (pc = "done" /\ roundTrips \in {10, 11}) => Len(sumTurns) = 1

\* C8 amended: in the scenario, when the 10th user message has been
\* answered the log has 20 entries and two summarize calls have been made
\* (in the 5th and the 10th round-trip); when the 11th has been answered
\* there are still two.
C8_TwoCallsAfterTen ==
  /\ (pc = "done" /\ roundTrips = 10) => (Len(messages) = 20 /\ sumTurns = <<5, 10>>)
  /\ (pc = "done" /\ roundTrips = 11) => (Len(messages) = 22 /\ sumTurns = <<5, 10>>)

C8_Witness ==
  /\ pc = "done"
  /\ roundTrips = 11
  /\ Len(messages) = 22

\* C9: in the scenario the k-th summarize call is issued during round-trip
\* 5k, and there is one call for every 5 completed round-trips.
C9_EveryFiveRoundTrips ==
  /\ \A k \in 1..Len(sumTurns) : sumTurns[k] = 5 * k
  /\ Len(sumTurns) = roundTrips \div 5

C9_Witness ==
  /\ sumTurns = <<5, 10, 15>>
  /\ roundTrips = 16
  /\ pc = "done"

\* C10: the interaction count is the initial count plus the number of
\* messages appended since construction (so the log length for a fresh
\* session); a finished turn added 2 if it returned and 1 if it threw; and
\* no step changes the count without appending exactly one message.
C10_CountTracksAppends ==
  /\ [](/\ interactions = init.interactions + (Len(messages) - Len(init.messages))
        /\ init.fresh => interactions = Len(messages)
        /\ (pc = "done" /\ result.kind = "return") =>
             interactions = call.pre.interactions + 2
        /\ (pc = "done" /\ result.kind = "throw") =>
             interactions = call.pre.interactions + 1)
  /\ [][interactions' # interactions =>
          (interactions' = interactions + 1 /\ Len(messages') = Len(messages) + 1)]_vars

C10_Witness ==
  /\ ~init.fresh
  /\ init.interactions = 24
  /\ pc = "done"
  /\ roundTrips > 0
  /\ roundTrips < calls
  /\ interactions >= 27

C13_ErrorNotSticky ==
  (pc # "ready" /\ call.pre.status = "error") =>
    /\ pc = "awaiting" =>
         /\ status = "active"
         /\ call.completion = "pending"
         /\ messages = Append(call.pre.messages, Last(messages))
         /\ Last(messages).role = "user"
         /\ Last(messages).content = call.text
    /\ (pc = "done" /\ call.completion = "ok") => status = "idle"
    /\ pc = "done" => call.completion \in {"ok", "failed"}
    /\ Len(messages) > Len(call.pre.messages)

C13_Witness ==
  /\ pc = "done"
  /\ call.pre.status = "error"
  /\ call.completion = "ok"
  /\ status = "idle"
  /\ calls > roundTrips

\* C14: with an unrecognized memoryType a call issues its completion call
\* with a context that is the system entry alone, throws only when the
\* completion failed, and changes log, count and status as any turn does:
\* two messages and idle when the completion succeeds, one and error when
\* it fails.
C14_UnknownMemoryType ==
  (memoryType \notin {"conversation", "summarized", "long_term"} /\ pc # "ready") =>
    /\ call.window = <<>>
    /\ call.context = <<(<<"system", call.pre.interactions + 1, call.pre.lastSummary>>)>>
    /\ pc = "awaiting" => (call.completion = "pending" /\ status = "active")
    /\ result.kind = "throw" => call.completion = "failed"
    /\ (pc = "done" /\ call.completion = "ok") =>
         /\ result.kind = "return"
         /\ Len(messages) = Len(call.pre.messages) + 2
         /\ interactions = call.pre.interactions + 2
         /\ status = "idle"
    /\ (pc = "done" /\ call.completion = "failed") =>
         /\ Len(messages) = Len(call.pre.messages) + 1
         /\ interactions = call.pre.interactions + 1
         /\ status = "error"

C14_Witness ==
  /\ memoryType = "episodic"
  /\ pc = "done"
  /\ call.completion = "ok"
  /\ Len(call.pre.messages) > 0
  /\ Len(call.context) = 1

\* C20: when processMessage(userText) has returned, the log is the log at
\* entry followed by a user message with content userText and an assistant
\* message whose content is the returned value.
C20_SuccessfulTurn ==
  (pc = "done" /\ result.kind = "return") =>
    LET n == Len(call.pre.messages)
    IN  /\ Len(messages) = n + 2
        /\ SubSeq(messages, 1, n) = call.pre.messages
        /\ messages[n + 1].role = "user"
        /\ messages[n + 1].content = call.text
        /\ messages[n + 2].role = "assistant"
        /\ messages[n + 2].content = result.value
        /\ result.value \in Replies

C20_Witness ==
  /\ pc = "done"
  /\ result.kind = "return"
  /\ call.text = "yo"
  /\ Len(call.pre.messages) > 0
  /\ calls > 1

\* The process requests in flight (inside processMessage) for an agent.
InFlight(id) == {r \in 1..Len(reqs) : reqs[r].agent = id /\ reqs[r].pc = "awaiting"}

\* What a reader of the store gets for an agent: the record, with the
\* objects it refers to.
Stored(st, hs, hh, id) ==
  IF id \in 1..Len(st) /\ st[id].present
  THEN [present |-> TRUE, status |-> st[id].status,
        experienceSummary |-> IF st[id].experienceSummary = None THEN None
                              ELSE Some(hs[st[id].experienceSummary[1]]),
        conversationHistory |-> IF st[id].conversationHistory = None THEN None
                                ELSE Some(hh[st[id].conversationHistory[1]])]
  ELSE [present |-> FALSE, status |-> "undefined",
        experienceSummary |-> None, conversationHistory |-> None]

\* The Agent instances of the requests made for an agent, with their objects.
Sessions(rq, hs, hh, id) ==
  {[req |-> r, status |-> rq[r].status,
    experienceSummary |-> hs[rq[r].sum],
    conversationHistory |-> hh[rq[r].hist]] :
     r \in {x \in 1..Len(rq) : rq[x].agent = id /\ rq[x].sum # 0}}

StoredLogOf(id) ==
  IF store[id].conversationHistory = None THEN <<>>
  ELSE heapHist[store[id].conversationHistory[1]].messages

\* C12: an agent for which no processMessage call is executing has a
\* stored status other than active.
C12_ActiveOnlyInFlight ==
  \A id \in 1..Len(store) :
    (store[id].present /\ InFlight(id) = {}) => store[id].status # "active"

\* C15: a step made for one agent (a request of its own, its creation, its
\* deletion, the settling of one of its summarize calls) leaves what the
\* store holds for every other agent, and the sessions of every other
\* agent, as they were.
C15_AgentsIndependent ==
  [][\A b \in 1..MaxAgents :
       b # actor' =>
         /\ Stored(store', heapSum', heapHist', b) = Stored(store, heapSum, heapHist, b)
         /\ Sessions(reqs', heapSum', heapHist', b) = Sessions(reqs, heapSum, heapHist, b)]_vars

C15_Witness ==
  /\ Len(store) = 2
  /\ store[2].present
  /\ store[2].bare
  /\ \E r \in 1..Len(reqs) : reqs[r].agent = 2 /\ reqs[r].http = 200
  /\ \E r \in 1..Len(reqs) : reqs[r].agent = 1 /\ reqs[r].http = 200
  /\ StoredLogOf(1) # StoredLogOf(2)

\* C16: no agent ever has two processMessage calls in flight, and in every
\* answered turn the assistant reply sits right after the turn's own user
\* message.
C16_TurnsSerialized ==
  /\ \A id \in 1..MaxAgents : Cardinality(InFlight(id)) <= 1
  /\ \A r \in 1..Len(reqs) : reqs[r].http = 200 => reqs[r].replyAt = reqs[r].userAt + 1

\* C17: the log of every Agent instance with a turn in flight extends the
\* log the store holds for its agent, by at most two messages.
C17_AtMostOneTurnAhead ==
  \A r \in 1..Len(reqs) :
    (reqs[r].pc = "awaiting" /\ store[reqs[r].agent].present) =>
      LET mem == heapHist[reqs[r].hist].messages
          saved == StoredLogOf(reqs[r].agent)
      IN  IsPrefix(saved, mem) /\ Len(mem) - Len(saved) <= 2

\* C18: a process request answered with success had its snapshot stored.
C18_FailedSavePropagates ==
  \A r \in 1..Len(reqs) : reqs[r].http = 200 => reqs[r].saved

\* C19: an agent created in the store without explicit state, and not yet
\* used by a request, gives a session with an empty log, an interaction
\* count of zero and status idle.
C19_NewAgentState ==
  \A id \in 1..Len(store) :
    (/\ store[id].present
     /\ store[id].bare
     /\ \A r \in 1..Len(reqs) : reqs[r].agent = id => reqs[r].sum = 0) =>
      LET a == newAgent(store[id], 0, 0)
          sum == IF a.experienceSummary = 0 THEN defaultSummary
                 ELSE heapSum[a.experienceSummary]
          hist == IF a.conversationHistory = 0 THEN defaultHistory
                  ELSE heapHist[a.conversationHistory]
      IN  /\ hist.messages = <<>>
          /\ sum.interactions = 0
          /\ a.status = "idle"

\* C21: while the completion call of a turn is outstanding, the last log
\* entry is this turn's user message, a non-empty window ends with it, and
\* the interaction count in the system entry of the context counts it.
C21_UserMessageFirst ==
  pc = "awaiting" =>
    /\ Len(messages) = Len(call.pre.messages) + 1
    /\ Last(messages).role = "user"
    /\ Last(messages).content = call.text
    /\ call.window # <<>> => Last(call.window) = Last(messages)
    /\ call.context[1][2] = call.pre.interactions + 1
    /\ call.context[1][2] = interactions

C21_Witness ==
  /\ pc = "awaiting"
  /\ Len(call.pre.messages) > 0
  /\ call.window # <<>>
  /\ call.text = "yo"
  /\ roundTrips > 0

\* C22: when processMessage has returned from a turn in which summarization
\* was due, the summarize call of that turn is settled.
C22_SummarizeBeforeReturn ==
  (pc = "done" /\ call.completion = "ok" /\ call.summarize # "none") =>
    \A p \in pending : p.id # calls

\* C23: at the return of a turn, lastSummary and lastUpdated are what they
\* were at entry when summarization was not due, the completion failed or
\* the summarize call is one that fails; and lastSummary is the summarize
\* result when summarization was due and the summarize call is one that
\* succeeds.
C23_SummaryFrame ==
  pc = "done" =>
    /\ (call.completion = "failed" \/ call.summarize \in {"none", "fail"}) =>
         /\ lastSummary = call.pre.lastSummary
         /\ lastUpdated = call.pre.lastUpdated
    /\ (call.completion = "ok" /\ call.summarize = "ok") => lastSummary \in SummaryTexts

\* C24: the text of every summarize call that a step starts is the rendering
\* of the last min(10, L) messages of the log as the step leaves it, in log
\* order, and that log ends with the assistant reply of the turn.
C24_SummarizeInput ==
  [][\A p \in pending' \ pending :
       LET L == Len(messages')
           k == Min(10, L)
       IN  /\ Last(messages').role = "assistant"
           /\ Len(p.text) = k
           /\ \A i \in 1..k : p.text[i] = render(messages'[L - k + i])]_vars

C24_Witness ==
  /\ memoryType = "summarized"
  /\ pc = "done"
  /\ Len(messages) > 10
  /\ \E p \in pending : p.id = calls /\ Len(p.text) = 10

\* C25: the context of a completion call is the system entry followed by
\* the rendering of each windowed message in window order: it has
\* 1 + min(L, bound(memoryType)) entries, at most 16, and the log and the
\* summary are what they were before it was built (the log with this
\* turn's user message).
C25_ContextShape ==
  pc = "awaiting" =>
    /\ call.context[1] = <<"system", call.pre.interactions + 1, call.pre.lastSummary>>
    /\ Len(call.context) = 1 + Min(Len(messages), Bound(memoryType))
    /\ Len(call.context) <= 16
    /\ Len(call.context) = 1 + Len(call.window)
    /\ \A i \in 1..Len(call.window) : call.context[i + 1] = render(call.window[i])
    /\ SubSeq(messages, 1, Len(call.pre.messages)) = call.pre.messages
    /\ interactions = call.pre.interactions + 1

C25_Witness ==
  /\ pc = "awaiting"
  /\ memoryType = "long_term"
  /\ Len(messages) > 15
  /\ Len(call.context) = 16

\* C28: an instance whose provider is anthropic or local never has a turn
\* that returns: every call ended by throwing with status error, the log is
\* the log at construction plus one user message per call, and no summarize
\* call was made; every other provider value selects the OpenAI service.
C28_UnimplementedProviders ==
  /\ provider \in {"anthropic", "local"} =>
       /\ roundTrips = 0
       /\ sumTurns = <<>>
       /\ pending = {}
       /\ Len(messages) = Len(init.messages) + calls
       /\ \A i \in (Len(init.messages) + 1)..Len(messages) : messages[i].role = "user"
       /\ pc = "done" => (status = "error" /\ result.kind = "throw")
       /\ createLLMService(provider) # "OpenAIService"
  /\ provider \notin {"anthropic", "local"} => createLLMService(provider) = "OpenAIService"

C28_Witness ==
  /\ provider = "anthropic"
  /\ pc = "done"
  /\ calls = 2
  /\ status = "error"

\* C26: what a reader of the store gets for an agent never holds the user
\* message of a turn of that agent that is still in flight.
C26_NoPartialState ==
  \A r \in 1..Len(reqs) :
    (reqs[r].pc = "awaiting" /\ store[reqs[r].agent].present) =>
      LET own == heapHist[reqs[r].hist].messages[reqs[r].userAt]
          seen == StoredLogOf(reqs[r].agent)
      IN  \A i \in 1..Len(seen) : seen[i] # own

\* C27: the step that takes a process request up to its completion call
\* and the step in which the request ends with a failed completion both
\* leave the store as it is, the request is answered with an error
\* response, and no step ever stores the status error.
C27_FailedTurnNotSaved ==
  [][/\ Len(reqs') > Len(reqs) => store' = store
     /\ \A r \in 1..Len(reqs) :
          (reqs[r].pc = "awaiting" /\ reqs'[r].pc = "responded" /\ reqs'[r].status = "error") =>
            /\ store' = store
            /\ reqs'[r].http = 500
     /\ \A id \in 1..Len(store) :
          store'[id].status = "error" => store[id].status = "error"]_vars

C27_Witness ==
  \E r \in 1..Len(reqs) :
    /\ reqs[r].http = 500
    /\ reqs[r].status = "error"
    /\ store[reqs[r].agent].present
    /\ store[reqs[r].agent].status = "active"

\* The tasks whose processTask call has not settled.
Running == {t \in 1..Len(tasks) : tasks[t].phase \in {"running", "saving"}}

\* C29: the active task counter is between 0 and maxConcurrentProcesses,
\* it counts the tasks whose processing has not finished, and so it is 0
\* when every started task has finished.
C29_ActiveTasksBounded ==
  /\ activeTasks >= 0
  /\ activeTasks <= maxConcurrentProcesses
  /\ activeTasks = Cardinality(Running)
  /\ (\A t \in 1..Len(tasks) : tasks[t].phase = "settled") => activeTasks = 0

C29_Witness ==
  /\ refused.limit > 0
  /\ Len(tasks) = maxConcurrentProcesses
  /\ activeTasks = 0
  /\ \E t \in 1..Len(tasks) : tasks[t].status = "error"
  /\ \E t \in 1..Len(tasks) : tasks[t].status = "completed"

\* C30: the values assigned to a task's status are pending, processing and
\* then completed or error, nothing after completed or error, and a task
\* with status completed keeps it in every later state.
C30_StatusOrder ==
  [][\A t \in 1..Len(tasks) :
       /\ tasks'[t].trail \in {<<"pending", "processing">>,
                               <<"pending", "processing", "completed">>,
                               <<"pending", "processing", "error">>}
       /\ tasks[t].status = "completed" => tasks'[t].status = "completed"]_vars

====
